---- MODULE Spec2Model ----
(***************************************************************************)
(* A model of the execution ledger (execution_registry.py), of the chain   *)
(* sync (netsync_scrollchain.py), of the document anchoring                *)
(* (codexscroll_router.py) and of the document graph                       *)
(* (braid_connector.py) of the GILC Tesseract kernels.                     *)
(*                                                                         *)
(* Conventions                                                             *)
(*   - An Optional[T] value is a sequence: <<>> is None, <<v>> is v.       *)
(*   - A dict used as an opaque payload (output, metrics, metadata) is the *)
(*     set of its items; {} is the empty dict.                             *)
(*   - An execution id "ex-{ts:x}-{n:x}" is the pair <<ts, n>>; the text   *)
(*     after the last '-' is the counter n.                                *)
(*   - sha256 is taken to be collision free: a digest is the tagged value  *)
(*     it was computed from.                                               *)
(*   - The clock is the wall clock in milliseconds; it never runs          *)
(*     backwards, need not advance between two operations, and is read     *)
(*     once by each operation.                                             *)
(*   - Writes to the backing file succeed (the except branch of            *)
(*     _save_records is an environment failure that is not modelled).      *)
(***************************************************************************)
EXTENDS Integers, Sequences, FiniteSets, TLC

VARIABLES
    records,              \* ExecutionRegistry.records: id -> ExecutionRecord
    order,                \* insertion order of the keys of records
    next_execution_id,    \* ExecutionRegistry._next_execution_id
    storage_path,         \* ExecutionRegistry.storage_path (Optional)
    file,                 \* the backing file at storage_path
    clock,                \* time.time(), in milliseconds
    called,               \* a call has returned since the registry was constructed
    linked,               \* ids started while their parent id was in records
    ops,                  \* the number of constructions and calls made so far
    peer,                 \* a second ExecutionRegistry open on the same file
    ledger,               \* the JSON file at ScrollChainSync.registry_path
    log,                  \* the JSON file at ScrollChainSync.scrollchain_path
    result,               \* what the last call of ScrollChainSync returned
    forced,               \* some sync_registry call was given force=True
    documents,            \* the content of the file at each document path
    chain,                \* the JSON file at codexchain_path
    verdict,              \* the outcome of the last call of codexscroll_router
    heap,                 \* the DocumentNode objects constructed so far
    nodes,                \* SemanticBraid.nodes: key -> DocumentNode object
    link_types,           \* SemanticBraid.link_types
    tag_index,            \* SemanticBraid.tag_index: tag -> set of node objects
    answer                \* the outcome of the last call of SemanticBraid

regVars == <<records, order, next_execution_id, storage_path, file, clock,
             called, linked, ops, peer>>

scrollVars == <<documents, chain, verdict>>

syncVars == <<ledger, log, result, forced, scrollVars>>

braidVars == <<heap, nodes, link_types, tag_index, answer>>

vars == <<regVars, syncVars, braidVars>>

----------------------------------------------------------------------------
(* Bounds of the model *)

\* The clock runs from 1 to MaxClock.
MaxClock == 2

\* A registry instance issues the counters 1..MaxCounter.
MaxCounter == 3

\* The number of entries of a backing file that another program wrote.
MaxFileEntries == 3

\* The number of calls on a registry constructed on such a file.
MaxLoadOps == 2

\* The counter of the last id of a registry that only starts executions.
MaxIdCounter == 17

\* The number of registry constructions and calls in a run.
MaxOps == 4

\* The sync log holds at most MaxEntries entries.
MaxEntries == 3

\* The number of entries of the chain of anchored documents.
MaxChainEntries == 3

\* A braid constructs at most MaxObjects DocumentNode objects and appends at
\* most MaxLinks links to them.
MaxObjects == 3

MaxLinks == 2

\* A braid that is queried appends at most MaxQueriedLinks links, and one
\* that is searched for paths constructs at most MaxPathObjects
\* DocumentNode objects.
MaxQueriedLinks == 3

MaxPathObjects == 4

\* The interpreter raises RecursionError in a call nested deeper than this.
MaxRecursion == 3

----------------------------------------------------------------------------
(* Values *)

None == <<>>

Some(v) == <<v>>

PENDING == 1

RUNNING == 2

COMPLETED == 3

FAILED == 4

CANCELLED == 5

ExecutionStatus == {PENDING, RUNNING, COMPLETED, FAILED, CANCELLED}

StatusName(s) ==
    CASE s = PENDING -> "PENDING"
      [] s = RUNNING -> "RUNNING"
      [] s = COMPLETED -> "COMPLETED"
      [] s = FAILED -> "FAILED"
      [] s = CANCELLED -> "CANCELLED"

StatusNames == {StatusName(s) : s \in ExecutionStatus}

StatusByName(n) == CHOOSE s \in ExecutionStatus : StatusName(s) = n

Kernels == {"k"}

DocPaths == {"d"}

\* The <<output, metrics>> given to complete_execution: an empty output with
\* no metrics, and a non-empty output with metrics.
CompleteArgs == {<<{}, None>>, <<{"x"}, Some({"m"})>>}

\* The <<error, metrics>> given to fail_execution.
FailArgs == {<<"boom", None>>}

Ghost == <<0, 0>>

RecordFields ==
    {"execution_id", "kernel_name", "doc_path", "start_time", "end_time",
     "status", "input_metadata", "output", "error", "context",
     "quantum_seal", "parent_execution_id", "child_executions", "metrics"}

RequiredFields == {"execution_id", "kernel_name", "doc_path", "start_time"}

OrEmpty(opt) == IF opt = None THEN {} ELSE opt[1]

sha256(x) == <<"sha256", x>>

----------------------------------------------------------------------------
(* ExecutionRecord *)

duration(r) ==
    IF r.end_time # None /\ r.end_time[1] # 0 /\ r.start_time # 0
    THEN Some(r.end_time[1] - r.start_time)
    ELSE None

to_dict(r) ==
    [k \in RecordFields \cup {"duration"} |->
        CASE k = "execution_id" -> Some(r.execution_id)
          [] k = "kernel_name" -> Some(r.kernel_name)
          [] k = "doc_path" -> Some(r.doc_path)
          [] k = "start_time" -> Some(r.start_time)
          [] k = "end_time" -> r.end_time
          [] k = "status" -> Some(StatusName(r.status))
          [] k = "input_metadata" -> Some(r.input_metadata)
          [] k = "output" -> r.output
          [] k = "error" -> r.error
          [] k = "context" -> Some(r.context)
          [] k = "quantum_seal" -> r.quantum_seal
          [] k = "parent_execution_id" -> r.parent_execution_id
          [] k = "child_executions" -> Some(r.child_executions)
          [] k = "metrics" -> Some(r.metrics)
          [] k = "duration" -> duration(r)]

\* cls(**data): a TypeError for a key that is no field of the dataclass or for a
\* missing required field, a KeyError for an unknown status name.  None is failure.
from_dict(d) ==
    IF /\ DOMAIN d \subseteq RecordFields
       /\ RequiredFields \subseteq DOMAIN d
       /\ ("status" \in DOMAIN d => d["status"][1] \in StatusNames)
    THEN Some([execution_id |-> d["execution_id"][1],
               kernel_name |-> d["kernel_name"][1],
               doc_path |-> d["doc_path"][1],
               start_time |-> d["start_time"][1],
               end_time |-> IF "end_time" \in DOMAIN d THEN d["end_time"] ELSE None,
               status |-> IF "status" \in DOMAIN d
                          THEN StatusByName(d["status"][1]) ELSE PENDING,
               input_metadata |-> IF "input_metadata" \in DOMAIN d
                                  THEN d["input_metadata"][1] ELSE {},
               output |-> IF "output" \in DOMAIN d THEN d["output"] ELSE None,
               error |-> IF "error" \in DOMAIN d THEN d["error"] ELSE None,
               context |-> IF "context" \in DOMAIN d THEN d["context"][1] ELSE {},
               quantum_seal |-> IF "quantum_seal" \in DOMAIN d
                                THEN d["quantum_seal"] ELSE None,
               parent_execution_id |-> IF "parent_execution_id" \in DOMAIN d
                                       THEN d["parent_execution_id"] ELSE None,
               child_executions |-> IF "child_executions" \in DOMAIN d
                                    THEN d["child_executions"][1] ELSE <<>>,
               metrics |-> IF "metrics" \in DOMAIN d THEN d["metrics"][1] ELSE {}])
    ELSE None

----------------------------------------------------------------------------
(* The backing file *)

\* The file is [exists, kind, version, records, last_updated]: kind is "dict"
\* for a JSON object, "nondict" for JSON that is no object, "invalid" for text
\* that is not JSON and "unreadable" for a file that may not be read.
NoFile ==
    [exists |-> FALSE, kind |-> "missing", version |-> "", records |-> <<>>,
     last_updated |-> 0]

\* _save_records: the whole file is rewritten from the in-memory records.
SavedFile(recs, ord, now) ==
    [exists |-> TRUE,
     kind |-> "dict",
     version |-> "1.0",
     records |-> [i \in 1..Len(ord) |-> to_dict(recs[ord[i]])],
     last_updated |-> now]

_save_records(recs, ord, now) ==
    IF storage_path = None THEN file ELSE SavedFile(recs, ord, now)

\* The counter part of an id: int(execution_id.split('-')[-1], 16).
record_num(id) == id[2]

Max(a, b) == IF a >= b THEN a ELSE b

\* _load_records: the state [records, order, next] after the entries data[1..n]
\* have been read into an empty registry.
RECURSIVE LoadEntries(_, _)
LoadEntries(data, n) ==
    IF n = 0 THEN [records |-> <<>>, order |-> <<>>, next |-> 1, raised |-> FALSE]
    ELSE LET prev == LoadEntries(data, n - 1)
             got == from_dict(data[n])
         IN IF got = None THEN prev
            ELSE LET r == got[1]
                     id == r.execution_id
                 IN [records |-> IF id \in DOMAIN prev.records
                                 THEN [prev.records EXCEPT ![id] = r]
                                 ELSE (id :> r) @@ prev.records,
                     order |-> IF id \in DOMAIN prev.records
                               THEN prev.order ELSE Append(prev.order, id),
                     next |-> Max(prev.next, record_num(id) + 1),
                     raised |-> FALSE]

\* A _load_records without its outer except clause: the failure to open or
\* to decode the file leaves the constructor.
LoadFailed_Propagated ==
    [records |-> <<>>, order |-> <<>>, next |-> 1, raised |-> TRUE]

\* The outer except clause of _load_records: the failure is logged and the
\* registry stays as the constructor made it.
LoadFailed ==
    [records |-> <<>>, order |-> <<>>, next |-> 1, raised |-> FALSE]

_load_records(f) ==
    IF f.kind = "dict" THEN LoadEntries(f.records, Len(f.records)) ELSE LoadFailed

FileIds == {file.records[i]["execution_id"][1] : i \in 1..Len(file.records)}

----------------------------------------------------------------------------
(* Operations of ExecutionRegistry *)

Ids == DOMAIN records

\* The ids a caller can hold: those of this registry, those a registry
\* constructed earlier on the same file wrote to it, and one never issued.
KnownToCaller == Ids \cup FileIds \cup {Ghost}

_generate_execution_id == <<clock, next_execution_id>>

\* The digest of _generate_quantum_seal for record r, sealed at time now.
_generate_quantum_seal(r, now) ==
    sha256([execution_id |-> r.execution_id,
            kernel |-> r.kernel_name,
            doc_path |-> r.doc_path,
            start_time |-> r.start_time,
            end_time |-> r.end_time,
            input_hash |-> sha256(r.input_metadata),
            output_hash |-> sha256(OrEmpty(r.output)),
            parent_id |-> r.parent_execution_id,
            timestamp |-> now])

get_execution(execution_id) ==
    IF execution_id \in Ids THEN Some(records[execution_id]) ELSE None

\* The loop that finds the root execution, from current; seen holds the records
\* visited.  The loop never ends when the parent links form a cycle: None.
RECURSIVE RootOf(_, _)
RootOf(current, seen) ==
    LET p == records[current].parent_execution_id
    IN IF p # None /\ p[1] \in Ids
       THEN IF p[1] \in seen THEN None ELSE RootOf(p[1], seen \cup {p[1]})
       ELSE Some(current)

Reversed(s) == [i \in 1..Len(s) |-> s[Len(s) + 1 - i]]

InRecords(id) == id \in Ids

\* The stack loop of get_execution_trace: the stack holds <<id, processed>>.
RECURSIVE Traverse(_, _)
Traverse(stack, trace) ==
    IF stack = <<>> THEN trace
    ELSE LET top == stack[Len(stack)]
             rest == SubSeq(stack, 1, Len(stack) - 1)
             node == records[top[1]]
             pushed == SelectSeq(Reversed(node.child_executions), InRecords)
         IN IF top[2]
            THEN Traverse(rest, Append(trace, top[1]))
            ELSE Traverse(rest \o [i \in 1..Len(pushed) |-> <<pushed[i], FALSE>>]
                               \o << <<top[1], TRUE>> >>,
                          trace)

\* The ids of the records get_execution_trace returns, in order; None when the
\* call does not return.
get_execution_trace(execution_id) ==
    IF execution_id \notin Ids THEN Some(<<>>)
    ELSE LET root == RootOf(execution_id, {execution_id})
         IN IF root = None THEN None
            ELSE Some(Traverse(<< <<root[1], FALSE>> >>, <<>>))

\* The ids of the records that have the given status.
WithStatus(status) == {i \in Ids : records[i].status = status}

\* sum(durations), over the records of the given ids.
RECURSIVE SumOfDurations(_)
SumOfDurations(ids) ==
    IF ids = {} THEN 0
    ELSE LET i == CHOOSE j \in ids : TRUE
         IN duration(records[i])[1] + SumOfDurations(ids \ {i})

\* get_execution_stats: the dict it returns, as a function of its keys; the
\* average is the pair <<sum, number>> of the division.
get_execution_stats ==
    IF Ids = {} THEN <<>>
    ELSE LET completed == WithStatus(COMPLETED)
             failed == WithStatus(FAILED)
             running == WithStatus(RUNNING)
             pending == WithStatus(PENDING)
             timed == {i \in completed : duration(records[i]) # None}
             durations == {duration(records[i])[1] : i \in timed}
         IN [total |-> Cardinality(Ids),
             completed |-> Cardinality(completed),
             failed |-> Cardinality(failed),
             running |-> Cardinality(running),
             pending |-> Cardinality(pending),
             avg_duration |-> IF timed # {}
                              THEN <<SumOfDurations(timed), Cardinality(timed)>>
                              ELSE <<0, 1>>,
             min_duration |-> IF timed # {}
                              THEN CHOOSE d \in durations : \A e \in durations : d <= e
                              ELSE 0,
             max_duration |-> IF timed # {}
                              THEN CHOOSE d \in durations : \A e \in durations : d >= e
                              ELSE 0,
             kernels_used |-> Cardinality({records[i].kernel_name : i \in Ids}),
             documents_processed |-> Cardinality({records[i].doc_path : i \in Ids})]

\* No second registry is open on the file.
NoPeer == [name |-> "none", records |-> <<>>, order |-> <<>>,
           next_execution_id |-> 1, called |-> FALSE, linked |-> {}]

\* No braid is in use.
BraidUnused ==
    /\ heap = <<>>
    /\ nodes = <<>>
    /\ link_types = {}
    /\ tag_index = <<>>
    /\ answer = [op |-> "none", args |-> <<>>, value |-> None, raised |-> FALSE]

\* No chain sync is in use: no ledger file, no log file.
\* No document is anchored: no document file, no chain file.
ScrollUnused ==
    /\ documents = <<>>
    /\ chain = [kind |-> "missing", entries |-> <<>>]
    /\ verdict = [op |-> "none", document |-> "", value |-> FALSE, raised |-> FALSE]

SyncUnused ==
    /\ ScrollUnused
    /\ ledger = [kind |-> "missing", doc |-> <<>>]
    /\ log = [kind |-> "missing", doc |-> <<>>]
    /\ result = [op |-> "none", success |-> FALSE, message |-> ""]
    /\ forced = FALSE

Init ==
    /\ SyncUnused
    /\ BraidUnused
    /\ records = <<>>
    /\ order = <<>>
    /\ next_execution_id = 1
    /\ storage_path \in {None, Some("registry.json")}
    /\ file = NoFile
    /\ clock = 1
    /\ called = FALSE
    /\ linked = {}
    /\ ops = 0
    /\ peer = NoPeer

Tick ==
    /\ clock < MaxClock
    /\ clock' = clock + 1
    /\ UNCHANGED <<records, order, next_execution_id, storage_path, file, called,
                   linked, ops, peer, syncVars, braidVars>>

\* ExecutionRegistry(storage_path) constructed anew on the same backing file.
Reload ==
    /\ LET loaded == IF storage_path # None /\ file.exists
                     THEN _load_records(file)
                     ELSE [records |-> <<>>, order |-> <<>>, next |-> 1]
       IN /\ records' = loaded.records
          /\ order' = loaded.order
          /\ next_execution_id' = loaded.next
    /\ called' = FALSE
    /\ linked' = {}
    /\ UNCHANGED <<storage_path, file, clock>>

\* A start_execution that never appends to the parent's child list.
RegisterChild_Forgotten(parent, execution_id) == records

\* A start_execution that appends the new id to the child list of every record.
RegisterChild_ToAll(parent, execution_id) ==
    [i \in Ids |-> [records[i] EXCEPT !.child_executions = Append(@, execution_id)]]

\* The records after the parent's child list has been updated.
RegisterChild(parent, execution_id) ==
    IF parent # None /\ parent[1] \in Ids
    THEN [records EXCEPT ![parent[1]].child_executions = Append(@, execution_id)]
    ELSE records

\* start_execution with input_metadata and context left out (None).
start_execution(kernel_name, doc_path, parent) ==
    /\ LET execution_id == _generate_execution_id
           record == [execution_id |-> execution_id,
                      kernel_name |-> kernel_name,
                      doc_path |-> doc_path,
                      start_time |-> clock,
                      end_time |-> None,
                      status |-> RUNNING,
                      input_metadata |-> {},
                      output |-> None,
                      error |-> None,
                      context |-> {},
                      quantum_seal |-> None,
                      parent_execution_id |-> parent,
                      child_executions |-> <<>>,
                      metrics |-> {}]
           present == parent # None /\ parent[1] \in Ids
           withChild == RegisterChild(parent, execution_id)
           recs == IF execution_id \in Ids
                   THEN [withChild EXCEPT ![execution_id] = record]
                   ELSE (execution_id :> record) @@ withChild
           ord == IF execution_id \in Ids THEN order ELSE Append(order, execution_id)
       IN /\ records' = recs
          /\ order' = ord
          /\ file' = _save_records(recs, ord, clock)
          /\ linked' = IF present THEN linked \cup {execution_id}
                       ELSE linked \ {execution_id}
    /\ next_execution_id' = next_execution_id + 1
    /\ called' = TRUE
    /\ UNCHANGED <<storage_path, clock>>

\* A completion that stamps the record and leaves out the seal.
Completed_Unsealed(record, output, metrics, now) ==
    [record EXCEPT !.status = COMPLETED,
                   !.end_time = Some(now),
                   !.output = Some(output),
                   !.metrics = OrEmpty(metrics)]

\* The record as complete_execution leaves it at time now.
Completed(record, output, metrics, now) ==
    LET stamped == [record EXCEPT !.status = COMPLETED,
                                  !.end_time = Some(now),
                                  !.output = Some(output),
                                  !.metrics = OrEmpty(metrics)]
    IN [stamped EXCEPT !.quantum_seal = Some(_generate_quantum_seal(stamped, now))]

complete_execution(execution_id, output, metrics) ==
    /\ called' = TRUE
    /\ IF execution_id \notin Ids
       THEN UNCHANGED <<records, file>>
       ELSE LET record == Completed(records[execution_id], output, metrics, clock)
                recs == [records EXCEPT ![execution_id] = record]
            IN /\ records' = recs
               /\ file' = _save_records(recs, order, clock)
    /\ UNCHANGED <<order, next_execution_id, storage_path, clock, linked>>

fail_execution(execution_id, error, metrics) ==
    /\ called' = TRUE
    /\ IF execution_id \notin Ids
       THEN UNCHANGED <<records, file>>
       ELSE LET record == [records[execution_id] EXCEPT
                               !.status = FAILED,
                               !.end_time = Some(clock),
                               !.error = Some(error),
                               !.metrics = OrEmpty(metrics)]
                recs == [records EXCEPT ![execution_id] = record]
            IN /\ records' = recs
               /\ file' = _save_records(recs, order, clock)
    /\ UNCHANGED <<order, next_execution_id, storage_path, clock, linked>>

\* A cancel_execution that cancels a record of any status.
Cancellable_Any == ExecutionStatus

\* The statuses of the records that cancel_execution changes.
Cancellable == {PENDING, RUNNING}

\* A cancel_execution that leaves the end time as it is.
cancel_execution_Unstamped(execution_id) ==
    /\ called' = TRUE
    /\ IF execution_id \in Ids /\ records[execution_id].status \in {PENDING, RUNNING}
       THEN LET recs == [records EXCEPT ![execution_id].status = CANCELLED]
            IN /\ records' = recs
               /\ file' = _save_records(recs, order, clock)
       ELSE UNCHANGED <<records, file>>
    /\ UNCHANGED <<order, next_execution_id, storage_path, clock, linked>>

\* A cancel_execution that rewrites the backing file whatever the id.
cancel_execution_Saving(execution_id) ==
    /\ called' = TRUE
    /\ LET recs == IF execution_id \in Ids
                       /\ records[execution_id].status \in Cancellable
                   THEN [records EXCEPT
                            ![execution_id].status = CANCELLED,
                            ![execution_id].end_time = Some(clock)]
                   ELSE records
       IN /\ records' = recs
          /\ file' = _save_records(recs, order, clock)
    /\ UNCHANGED <<order, next_execution_id, storage_path, clock, linked>>

cancel_execution(execution_id) ==
    /\ called' = TRUE
    /\ IF execution_id \in Ids /\ records[execution_id].status \in Cancellable
       THEN LET recs == [records EXCEPT
                            ![execution_id].status = CANCELLED,
                            ![execution_id].end_time = Some(clock)]
            IN /\ records' = recs
               /\ file' = _save_records(recs, order, clock)
       ELSE UNCHANGED <<records, file>>
    /\ UNCHANGED <<order, next_execution_id, storage_path, clock, linked>>

\* One more construction or call, while the budget of operations lasts.
Counted == ops < MaxOps /\ ops' = ops + 1 /\ UNCHANGED <<peer, syncVars, braidVars>>

Next ==
    \/ Tick
    \/ Counted /\ Reload
    \/ Counted /\ next_execution_id <= MaxCounter
               /\ \E k \in Kernels, d \in DocPaths,
                     p \in {None} \cup {Some(i) : i \in KnownToCaller} :
                        start_execution(k, d, p)
    \/ Counted /\ \E i \in KnownToCaller, a \in CompleteArgs :
                        complete_execution(i, a[1], a[2])
    \/ Counted /\ \E i \in KnownToCaller, a \in FailArgs :
                        fail_execution(i, a[1], a[2])
    \/ Counted /\ \E i \in KnownToCaller : cancel_execution(i)

Spec == Init /\ [][Next]_vars

\* The character of a hexadecimal digit, as its code point: '0'..'9' are
\* 48..57 and 'a'..'f' are 97..102.
HexDigit(d) == IF d < 10 THEN 48 + d ELSE 87 + d

\* format(n, 'x'): the characters of n in hexadecimal, without padding.
RECURSIVE Hex(_)
Hex(n) == IF n < 16 THEN <<HexDigit(n)>> ELSE Hex(n \div 16) \o <<HexDigit(n % 16)>>

\* The string of an id, f"ex-{timestamp:x}-{counter:x}", as code points
\* ('e' 101, 'x' 120, '-' 45).
Rendered(id) == <<101, 120, 45>> \o Hex(id[1]) \o <<45>> \o Hex(id[2])

\* A registry that starts one execution after the other, without parents.
IdNext ==
    \/ Tick
    \/ /\ next_execution_id <= MaxIdCounter
       /\ \E k \in Kernels, d \in DocPaths : start_execution(k, d, None)
       /\ UNCHANGED <<ops, peer, syncVars, braidVars>>

IdSpec == Init /\ [][IdNext]_vars

\* Two registries are constructed on the same path, where no file is yet:
\* the one whose fields are the variables makes the calls, the other one is
\* kept in peer.
TwoInit ==
    /\ SyncUnused
    /\ BraidUnused
    /\ records = <<>>
    /\ order = <<>>
    /\ next_execution_id = 1
    /\ storage_path = Some("registry.json")
    /\ file = NoFile
    /\ clock = 1
    /\ called = FALSE
    /\ linked = {}
    /\ ops = 0
    /\ peer = [NoPeer EXCEPT !.name = "second"]

\* The next call is made on the other registry.
Switch ==
    /\ peer' = [name |-> IF peer.name = "second" THEN "first" ELSE "second",
                records |-> records, order |-> order,
                next_execution_id |-> next_execution_id,
                called |-> called, linked |-> linked]
    /\ records' = peer.records
    /\ order' = peer.order
    /\ next_execution_id' = peer.next_execution_id
    /\ called' = peer.called
    /\ linked' = peer.linked
    /\ UNCHANGED <<storage_path, file, clock, ops, syncVars, braidVars>>

TwoNext ==
    \/ Tick
    \/ Switch
    \/ Counted /\ next_execution_id <= MaxCounter
               /\ \E k \in Kernels, d \in DocPaths,
                     p \in {None} \cup {Some(i) : i \in Ids} :
                        start_execution(k, d, p)

TwoSpec == TwoInit /\ [][TwoNext]_vars

\* The entries of a backing file that another program wrote: one with the
\* required keys only, one with every field of the dataclass, one with the
\* key 'duration' that to_dict adds, one with a status name that is no
\* member of ExecutionStatus.
RequiredOnly ==
    [execution_id |-> Some(<<1, 2>>), kernel_name |-> Some("k"),
     doc_path |-> Some("d"), start_time |-> Some(1)]

EveryField ==
    [execution_id |-> Some(<<1, 1>>), kernel_name |-> Some("k"),
     doc_path |-> Some("d"), start_time |-> Some(1), end_time |-> Some(1),
     status |-> Some("FAILED"), input_metadata |-> Some({}), output |-> None,
     error |-> Some("boom"), context |-> Some({}), quantum_seal |-> None,
     parent_execution_id |-> None, child_executions |-> Some(<<>>),
     metrics |-> Some({})]

WithDuration == ("duration" :> Some(0)) @@ [EveryField EXCEPT !["execution_id"] = Some(<<1, 3>>)]

UnknownStatus == ("status" :> Some("DONE")) @@ RequiredOnly

ExternalEntries == {RequiredOnly, EveryField, WithDuration, UnknownStatus}

RECURSIVE SeqsUpTo(_, _)
SeqsUpTo(S, n) ==
    IF n = 0 THEN {<<>>}
    ELSE LET shorter == SeqsUpTo(S, n - 1)
         IN shorter \cup {Append(q, x) : q \in shorter, x \in S}

\* The backing files a registry is constructed on.
LoadFiles ==
    {[NoFile EXCEPT !.exists = TRUE, !.kind = k] :
        k \in {"invalid", "nondict", "unreadable"}}
    \cup {[NoFile EXCEPT !.exists = TRUE, !.kind = "dict", !.version = "1.0",
                         !.records = q] : q \in SeqsUpTo(ExternalEntries, MaxFileEntries)}

\* ExecutionRegistry(storage_path) on one of these files.
LoadInit ==
    /\ SyncUnused
    /\ BraidUnused
    /\ storage_path = Some("registry.json")
    /\ file \in LoadFiles
    /\ LET loaded == _load_records(file)
       IN /\ records = loaded.records
          /\ order = loaded.order
          /\ next_execution_id = loaded.next
    /\ clock = 1
    /\ called = FALSE
    /\ linked = {}
    /\ ops = 0
    /\ peer = NoPeer

LoadCounted ==
    ops < MaxLoadOps /\ ops' = ops + 1 /\ UNCHANGED <<peer, syncVars, braidVars>>

LoadNext ==
    \/ Tick
    \/ LoadCounted /\ Reload
    \/ LoadCounted /\ \E k \in Kernels, d \in DocPaths : start_execution(k, d, None)
    \/ LoadCounted /\ \E i \in Ids : cancel_execution(i)

LoadSpec == LoadInit /\ [][LoadNext]_vars

----------------------------------------------------------------------------
(* ScrollChainSync: the chain sync of netsync_scrollchain.py               *)
(*                                                                         *)
(* A JSON file is [kind, doc]: kind "missing" (no file), "invalid" (not    *)
(* JSON), "nondict" (JSON that is no object), "dict", or, for the log,     *)
(* "unreadable" (open() raises an OSError other than FileNotFoundError:    *)
(* the file may be neither read nor written).  The doc of the ledger is    *)
(* the sequence of its <<key, value>> members in file order; the doc of    *)
(* the log is a function from the keys it has to their values.             *)
(* sha3_256 is taken to be collision free.                                 *)

sha3_256(x) == <<"sha3_256", x>>

\* What the file at registry_path can hold.
LedgerFiles ==
    {[kind |-> "missing", doc |-> <<>>],
     [kind |-> "invalid", doc |-> <<>>],
     [kind |-> "dict", doc |-> << <<"a", 1>> >>],
     [kind |-> "dict", doc |-> << <<"a", 1>>, <<"b", 2>> >>],
     [kind |-> "dict", doc |-> << <<"b", 2>>, <<"a", 1>> >>]}

\* What the file at scrollchain_path can hold before the first sync.
InitialLogs ==
    {[kind |-> "missing", doc |-> <<>>],
     [kind |-> "invalid", doc |-> <<>>],
     [kind |-> "nondict", doc |-> <<>>],
     [kind |-> "unreadable", doc |-> <<>>],
     [kind |-> "dict", doc |-> [version |-> "1.0"]],
     [kind |-> "dict", doc |-> [version |-> "1.0", entries |-> <<>>]],
     [kind |-> "dict",
      doc |-> [version |-> "1.0",
               entries |-> << [registry_hash |-> sha3_256({<<"a", 1>>}),
                               timestamp |-> 0,
                               registry_path |-> "/abs/kernel_registry.json"] >>]]}

\* json.dumps(registry_data, sort_keys=True): the members whatever their order.
SortedDump(doc) == {doc[i] : i \in 1..Len(doc)}

\* _compute_registry_hash: "" when the ledger is missing or is not JSON.
_compute_registry_hash ==
    IF ledger.kind \in {"missing", "invalid"} THEN ""
    ELSE sha3_256(SortedDump(ledger.doc))

\* scrollchain.get('entries', [])
EntriesOf(doc) == IF "entries" \in DOMAIN doc THEN doc["entries"] ELSE <<>>

\* Whether some e of entries has e.get('registry_hash') == h.
HasHash(entries, h) == \E i \in 1..Len(entries) : entries[i].registry_hash = h

\* A verify_sync that is content with any entry in the log.
VerifyAgainst_AnyEntry(lg) ==
    /\ _compute_registry_hash # ""
    /\ lg.kind = "dict"
    /\ EntriesOf(lg.doc) # <<>>

\* verify_sync, on the ledger and the log file lg.
VerifyAgainst(lg) ==
    LET registry_hash == _compute_registry_hash
    IN IF registry_hash = "" THEN FALSE
       ELSE IF lg.kind \in {"missing", "invalid", "nondict", "unreadable"}
            THEN FALSE
       ELSE HasHash(EntriesOf(lg.doc), registry_hash)

verify_sync == VerifyAgainst(log)

\* A sync_registry that appends whether or not the hash is in the log.
AlreadySynchronized_Never(existing, force) == FALSE

\* The test "existing_entry and not force".
AlreadySynchronized(existing, force) == existing /\ ~force

\* A sync_registry that writes the log with the new entry in place of the
\* entries it read.
AppendEntry_Overwriting(scrollchain, sync_entry) ==
    ("entries" :> <<sync_entry>>) @@ scrollchain

\* A sync_registry that appends the new entry twice.
AppendEntry_Twice(scrollchain, sync_entry) ==
    ("entries" :> Append(Append(EntriesOf(scrollchain), sync_entry), sync_entry))
        @@ scrollchain

\* scrollchain['entries'].append(sync_entry), on a missing key from [].
AppendEntry(scrollchain, sync_entry) ==
    ("entries" :> Append(EntriesOf(scrollchain), sync_entry)) @@ scrollchain

\* A sync_registry without its outermost except clause.
CaughtFailure_Propagated ==
    [op |-> "raised", success |-> FALSE, message |-> "PermissionError"]

\* The outermost except clause of sync_registry: the failure is returned.
CaughtFailure ==
    [op |-> "sync", success |-> FALSE, message |-> "Synchronization failed"]

sync_registry(force) ==
    LET registry_hash == _compute_registry_hash
        timestamp == clock
        sync_entry == [registry_hash |-> registry_hash,
                       timestamp |-> timestamp,
                       registry_path |-> "/abs/kernel_registry.json"]
        scrollchain == IF log.kind = "dict" THEN log.doc
                       ELSE [version |-> "1.0", entries |-> <<>>]
        existing == HasHash(EntriesOf(scrollchain), registry_hash)
        appended == [kind |-> "dict", doc |-> AppendEntry(scrollchain, sync_entry)]
        created == [kind |-> "dict",
                    doc |-> [version |-> "1.0",
                             created_at |-> timestamp,
                             entries |-> <<sync_entry>>]]
        verified(lg) ==
            IF VerifyAgainst(lg)
            THEN [op |-> "sync", success |-> TRUE, message |-> "synchronized"]
            ELSE [op |-> "sync", success |-> FALSE, message |-> "verification failed"]
    IN /\ forced' = (forced \/ force)
       /\ IF registry_hash = ""
          THEN /\ result' = [op |-> "sync", success |-> FALSE,
                             message |-> "Failed to compute registry hash"]
               /\ log' = log
          ELSE IF log.kind = "unreadable"
          THEN /\ result' = CaughtFailure
               /\ log' = log
          ELSE IF log.kind = "missing"
          THEN /\ log' = created
               /\ result' = verified(created)
          ELSE IF AlreadySynchronized(existing, force)
          THEN /\ result' = [op |-> "sync", success |-> TRUE,
                             message |-> "already synchronized"]
               /\ log' = log
          ELSE /\ Len(EntriesOf(scrollchain)) < MaxEntries
               /\ log' = appended
               /\ result' = verified(appended)
       /\ UNCHANGED <<ledger, scrollVars, regVars, braidVars>>

\* sorted(entries, key=timestamp, reverse=True)[0]: the sort is stable, so of
\* the entries with the greatest timestamp the first of the list comes first.
Newest(entries) ==
    LET i == CHOOSE j \in 1..Len(entries) :
                 /\ \A k \in 1..Len(entries) :
                        entries[k].timestamp <= entries[j].timestamp
                 /\ \A k \in 1..(j - 1) :
                        entries[k].timestamp < entries[j].timestamp
    IN entries[i]

\* get_latest_sync on the log lg: the entry or None it returns, or the
\* exception that leaves it (no except clause is there for a log that is
\* not a JSON object, nor for one that cannot be opened).
LatestOf(lg) ==
    CASE lg.kind \in {"missing", "invalid"} -> [raised |-> FALSE, value |-> None]
      [] lg.kind \in {"nondict", "unreadable"} -> [raised |-> TRUE, value |-> None]
      [] OTHER ->
           IF EntriesOf(lg.doc) # <<>>
           THEN [raised |-> FALSE, value |-> Some(Newest(EntriesOf(lg.doc)))]
           ELSE [raised |-> FALSE, value |-> None]

get_latest_sync == LatestOf(log)

VerifySync ==
    /\ result' = [op |-> "verify", success |-> verify_sync, message |-> ""]
    /\ UNCHANGED <<ledger, log, forced, scrollVars, regVars, braidVars>>

\* The owner of the ledger rewrites, removes or damages the file.
LedgerWrite(f) ==
    /\ ledger' = f
    /\ ledger # f
    /\ UNCHANGED <<log, result, forced, scrollVars, regVars, braidVars>>

SyncInit ==
    /\ ScrollUnused
    /\ ledger \in LedgerFiles
    /\ log \in InitialLogs
    /\ result = [op |-> "none", success |-> FALSE, message |-> ""]
    /\ forced = FALSE
    /\ BraidUnused
    /\ records = <<>>
    /\ order = <<>>
    /\ next_execution_id = 1
    /\ storage_path = None
    /\ file = NoFile
    /\ clock = 1
    /\ called = FALSE
    /\ linked = {}
    /\ ops = 0
    /\ peer = NoPeer

SyncNext ==
    \/ Tick
    \/ \E force \in BOOLEAN : sync_registry(force)
    \/ VerifySync
    \/ \E f \in LedgerFiles : LedgerWrite(f)

SyncSpec == SyncInit /\ [][SyncNext]_vars

----------------------------------------------------------------------------
(* codexscroll_router.py: documents anchored in the CodexScroll chain       *)
(*                                                                         *)
(* The chain file is [kind, entries]: kind "missing", "invalid" (not       *)
(* JSON), "nondict" (JSON that is no object), "noentries" (an object       *)
(* without the key 'entries'), "unreadable" (the file may be neither read  *)
(* nor written) or "dict", with the list at 'entries'.  An anchor          *)
(* "QS-SCROLL-{hash}-{timestamp}" is [doc_hash, timestamp].                *)

\* The document paths given to link_to_scroll and verify_scroll_link.
ScrollDocs == {"p", "q"}

\* What a document file holds; Absent is a file that cannot be read.
Absent == "absent"

Contents == {"c1", "c2"}

\* doc_hash[:16] of the sha3_256 digest, taken to be collision free.
DocHash(content) == <<"sha3_256[:16]", content>>

\* generate_quantum_anchor(document_path) at time now: the path stands for
\* the content of a document that cannot be read.
generate_quantum_anchor(document_path, now) ==
    LET content == IF documents[document_path] = Absent
                   THEN <<"path", document_path>>
                   ELSE <<"content", documents[document_path]>>
    IN [doc_hash |-> DocHash(content), timestamp |-> now]

\* The chain files that are there before the first call.
InitialChains ==
    {[kind |-> k, entries |-> <<>>] :
        k \in {"missing", "invalid", "nondict", "noentries", "unreadable", "dict"}}
    \cup {[kind |-> "dict",
           entries |-> << [document |-> "p", linked_at |-> 0, linked_by |-> "system",
                           quantum_anchor |-> [doc_hash |-> DocHash(<<"content", "c2">>),
                                               timestamp |-> 0],
                           metadata |-> {}] >>]}

\* link_to_scroll(document_path): the chain file it leaves and its outcome.
link_to_scroll(document_path) ==
    LET entry == [document |-> document_path,
                  linked_at |-> clock,
                  linked_by |-> "system",
                  quantum_anchor |-> generate_quantum_anchor(document_path, clock),
                  metadata |-> {}]
        data == IF chain.kind = "dict" THEN chain.entries ELSE <<>>
    IN IF chain.kind = "unreadable"
       THEN [chain |-> chain,
             verdict |-> [op |-> "link_to_scroll", document |-> document_path,
                          value |-> FALSE, raised |-> TRUE]]
       ELSE [chain |-> [kind |-> "dict", entries |-> Append(data, entry)],
             verdict |-> [op |-> "link_to_scroll", document |-> document_path,
                          value |-> TRUE, raised |-> FALSE]]

\* The index of the first entry of the chain for the document, 0 if none.
FirstEntryFor(document_path) ==
    LET found == {i \in 1..Len(chain.entries) :
                     chain.entries[i].document = document_path}
    IN IF found = {} THEN 0 ELSE CHOOSE i \in found : \A j \in found : i <= j

\* verify_scroll_link(document_path): what it returns, or that it raises.
verify_scroll_link(document_path) ==
    CASE chain.kind \in {"missing", "invalid"} -> [value |-> FALSE, raised |-> FALSE]
      [] chain.kind \in {"nondict", "unreadable"} -> [value |-> FALSE, raised |-> TRUE]
      [] OTHER ->
           LET i == FirstEntryFor(document_path)
           IN IF i = 0 THEN [value |-> FALSE, raised |-> FALSE]
              ELSE [value |-> chain.entries[i].quantum_anchor.doc_hash
                                = generate_quantum_anchor(document_path, clock).doc_hash,
                    raised |-> FALSE]

\* A call of link_to_scroll.
LinkToScroll(document_path) ==
    LET after == link_to_scroll(document_path)
    IN /\ chain' = after.chain
       /\ verdict' = after.verdict
       /\ UNCHANGED <<documents, ledger, log, result, forced, regVars, braidVars>>

\* A call of verify_scroll_link.
VerifyScrollLink(document_path) ==
    LET got == verify_scroll_link(document_path)
    IN /\ verdict' = [op |-> "verify_scroll_link", document |-> document_path,
                      value |-> got.value, raised |-> got.raised]
       /\ UNCHANGED <<documents, chain, ledger, log, result, forced, regVars,
                      braidVars>>

\* The owner of a document rewrites it.
WriteDocument(document_path, content) ==
    /\ documents[document_path] # content
    /\ documents' = [documents EXCEPT ![document_path] = content]
    /\ UNCHANGED <<chain, verdict, ledger, log, result, forced, regVars, braidVars>>

ScrollInit ==
    /\ documents \in [ScrollDocs -> {"c1", Absent}]
    /\ chain \in InitialChains
    /\ verdict = [op |-> "none", document |-> "", value |-> FALSE, raised |-> FALSE]
    /\ ledger = [kind |-> "missing", doc |-> <<>>]
    /\ log = [kind |-> "missing", doc |-> <<>>]
    /\ result = [op |-> "none", success |-> FALSE, message |-> ""]
    /\ forced = FALSE
    /\ BraidUnused
    /\ records = <<>>
    /\ order = <<>>
    /\ next_execution_id = 1
    /\ storage_path = None
    /\ file = NoFile
    /\ clock = 1
    /\ called = FALSE
    /\ linked = {}
    /\ ops = 0
    /\ peer = NoPeer

ScrollNext ==
    \/ Tick
    \/ /\ Len(chain.entries) < MaxChainEntries
       /\ \E d \in ScrollDocs : LinkToScroll(d)
    \/ \E d \in ScrollDocs : VerifyScrollLink(d)
    \/ \E d \in ScrollDocs, c \in Contents : WriteDocument(d, c)

ScrollSpec == ScrollInit /\ [][ScrollNext]_vars

----------------------------------------------------------------------------
(* SemanticBraid: the document graph of braid_connector.py                 *)
(*                                                                         *)
(* A DocumentNode object is named <<doc_id, n>>: the n-th node, from 0,    *)
(* that add_document constructed for the key doc_id.  heap maps every node *)
(* object constructed so far to its fields, nodes maps a key to the object *)
(* registered under it.  A DocumentLink object is the record of its        *)
(* fields, and the links of a node are a sequence in the order they were   *)
(* appended.  A weight is a number of tenths.  A call that returns sets    *)
(* answer to what it returned, a call that raises sets answer.raised.      *)

\* 1.0, in tenths.
One == 10

\* Document ids given to add_document, and an id that is never added.
DocIds == {"A", "B", "C", "D"}

Unknown == "Z"

\* The ids of the documents of a braid that is queried for related documents.
BraidDocs == {"A", "B", "C"}

\* The ids of the documents of a braid whose documents are tagged.
TagDocs == {"A", "B"}

\* The ids and the paths of the documents of a braid to which documents are
\* added with and without an id.
KeyDocs == {"", "A"}

KeyPaths == {"a.md", "b.md"}

\* The ids given to get_document.
KeyQueries == {"", "A", "sha256(a.md:a:document)", "sha256(b.md:b:document)"}

\* The tags given to add_tag, has_tag and find_documents_by_tag.
Tags == {"X", "x", "y"}

\* The argument metadata given to add_document: none, or a dict whose key
\* 'tags' holds a list of tags.
MetadataArgs == {None, Some({<<"tags", <<"X", "y">>>>})}

\* The link types whose DocumentLink constructs a reverse link.
SymmetricTypes == {"similar_to", "related_to"}

\* The arguments link_type, weight, metadata given to link_documents.
LinkArgs ==
    {<<"references", 15, None>>,
     <<"references", 5, Some({<<"k", 1>>})>>,
     <<"cites", -5, None>>,
     <<"similar_to", 5, Some({<<"k", 1>>})>>}

\* The one kind of link of a braid that is searched for paths.
PathLinkArgs == {<<"references", 10, None>>}

\* The arguments doc_id, link_type, min_weight given to
\* find_related_documents.
RelatedArgs ==
    {<<"A", None, 0>>, <<"A", None, 5>>, <<"A", Some("references"), 0>>,
     <<"A", Some("cites"), 10>>, <<Unknown, None, 0>>}

\* The arguments source_id, target_id, max_hops given to get_shortest_path.
PathArgs == {<<"A", "D", h>> : h \in {0, 1, 2, 5}} \cup {<<"A", "A", -1>>}

min(a, b) == IF a <= b THEN a ELSE b

max(a, b) == IF a >= b THEN a ELSE b

\* A DocumentLink that stores the weight it is given.
ClampedWeight_AsGiven(weight) == weight

\* max(0.0, min(1.0, weight))
ClampedWeight(weight) == max(0, min(One, weight))

\* DocumentLink(source, target, link_type, weight, metadata), constructed on
\* the heap h at the given depth of the call stack: whether it raised
\* RecursionError, the heap it leaves, and the link.
RECURSIVE DocumentLink(_, _, _, _, _, _, _)
DocumentLink(h, source, target, link_type, weight, metadata, depth) ==
    IF depth > MaxRecursion
    THEN [raised |-> TRUE, heap |-> h, link |-> None]
    ELSE LET self == [source |-> source,
                      target |-> target,
                      link_type |-> link_type,
                      weight |-> ClampedWeight(weight),
                      metadata |-> metadata]
         IN IF link_type \in SymmetricTypes
            THEN LET reverse_link == DocumentLink(h, target, source, link_type,
                                                  weight, metadata, depth + 1)
                 IN IF reverse_link.raised THEN reverse_link
                    ELSE [raised |-> FALSE,
                          heap |-> [reverse_link.heap EXCEPT
                                      ![target].links = Append(@, reverse_link.link[1])],
                          link |-> Some(self)]
            ELSE [raised |-> FALSE, heap |-> h, link |-> Some(self)]

\* An add_link that appends the link to the links of the target as well.
add_link_ToBoth(h, self, target, link_type, weight, metadata) ==
    LET made == DocumentLink(h, self, target, link_type, weight,
                             OrEmpty(metadata), 1)
    IN IF made.raised THEN made
       ELSE [made EXCEPT !.heap = [made.heap EXCEPT
                                     ![self].links = Append(@, made.link[1]),
                                     ![target].links = Append(@, made.link[1])]]

\* DocumentNode.add_link, of the node self on the heap h.
add_link(h, self, target, link_type, weight, metadata) ==
    LET made == DocumentLink(h, self, target, link_type, weight,
                             OrEmpty(metadata), 1)
    IN IF made.raised THEN made
       ELSE [made EXCEPT !.heap = [made.heap EXCEPT
                                     ![self].links = Append(@, made.link[1])]]

\* _generate_id: the digest of "{path}:{title}:{doc_type}", where the title
\* is the stem of the path and the type is 'document' (no metadata in use
\* names a title or a type), on the paths in use.
_generate_id(doc_path) ==
    CASE doc_path = "a.md" -> "sha256(a.md:a:document)"
      [] doc_path = "b.md" -> "sha256(b.md:b:document)"
      [] OTHER -> "sha256(d.md:d:document)"

\* The id of a node: the one given, or a generated one when none is given.
StableId(doc_id, doc_path) == IF doc_id = "" THEN _generate_id(doc_path) ELSE doc_id

\* DocumentNode(doc_id, doc_path, metadata)
DocumentNode(doc_id, doc_path, metadata) ==
    [id |-> StableId(doc_id, doc_path), path |-> doc_path,
     metadata |-> OrEmpty(metadata), links |-> <<>>, tags |-> {}]

\* A str.lower() that returns the string as it is.
lower_AsGiven(tag) == tag

\* str.lower(), on the tags in use.
lower(tag) == IF tag = "X" THEN "x" ELSE tag

\* The object that the next DocumentNode constructed for doc_id is.
NewNode(doc_id) == <<doc_id, Cardinality({n \in DOMAIN heap : n[1] = doc_id})>>

get_document(doc_id) ==
    IF doc_id \in DOMAIN nodes THEN Some(nodes[doc_id]) ELSE None

\* The number of links appended so far.
RECURSIVE LinkCount(_)
LinkCount(objects) ==
    IF objects = {} THEN 0
    ELSE LET n == CHOOSE n \in objects : TRUE
         IN Len(heap[n].links) + LinkCount(objects \ {n})

Returned(op, args, value) ==
    [op |-> op, args |-> args, value |-> value, raised |-> FALSE]

\* The tag index after the node object n was added to the set of each of
\* the given tags.
Indexed(index, n, tags) ==
    [t \in DOMAIN index \cup tags |->
        (IF t \in DOMAIN index THEN index[t] ELSE {})
            \cup (IF t \in tags THEN {n} ELSE {})]

\* An add_document that gives the new node the links of the node it replaces.
add_document_Merging(doc_id, doc_path, metadata) ==
    /\ LET n == NewNode(doc_id)
           node == DocumentNode(doc_id, doc_path, metadata)
           merged == IF doc_id \in DOMAIN nodes
                     THEN [node EXCEPT !.links = heap[nodes[doc_id]].links]
                     ELSE node
       IN /\ heap' = (n :> merged) @@ heap
          /\ nodes' = (doc_id :> n) @@ nodes
          /\ tag_index' = Indexed(tag_index, n, node.tags)
          /\ answer' = Returned("add_document", <<>>, Some(n))
    /\ UNCHANGED <<link_types, regVars, syncVars>>

add_document(doc_id, doc_path, metadata) ==
    /\ LET n == NewNode(doc_id)
           node == DocumentNode(doc_id, doc_path, metadata)
       IN /\ heap' = (n :> node) @@ heap
          /\ nodes' = (doc_id :> n) @@ nodes
          /\ tag_index' = Indexed(tag_index, n, node.tags)
          /\ answer' = Returned("add_document", <<>>, Some(n))
    /\ UNCHANGED <<link_types, regVars, syncVars>>

\* DocumentNode.add_tag, on the node object n.
add_tag(n, tag) ==
    /\ heap' = [heap EXCEPT ![n].tags = @ \cup {lower(tag)}]
    /\ answer' = Returned("add_tag", <<>>, None)
    /\ UNCHANGED <<nodes, link_types, tag_index, regVars, syncVars>>

\* DocumentNode.has_tag, on the node object n.
has_tag(n, tag) == lower(tag) \in heap[n].tags

\* find_documents_by_tag: the documents of the list it returns.
find_documents_by_tag(tag) ==
    IF lower(tag) \in DOMAIN tag_index THEN tag_index[lower(tag)] ELSE {}

\* A call of has_tag.
HasTag(n, tag) ==
    /\ answer' = Returned("has_tag", <<n, tag>>, Some(has_tag(n, tag)))
    /\ UNCHANGED <<heap, nodes, link_types, tag_index, regVars, syncVars>>

\* A call of find_documents_by_tag.
FindByTag(tag) ==
    /\ answer' = Returned("find_documents_by_tag", <<tag>>,
                          Some(find_documents_by_tag(tag)))
    /\ UNCHANGED <<heap, nodes, link_types, tag_index, regVars, syncVars>>

\* A link_documents that raises when an endpoint is not registered.
NotFound_Raised ==
    [op |-> "link_documents", args |-> <<>>, value |-> None, raised |-> TRUE]

\* link_documents on an id that is not registered: return None.
NotFound == Returned("link_documents", <<>>, None)

\* A link_documents that does not record the type of the link.
AddLinkType_Unrecorded(types, link_type) == types

\* self.link_types.add(link_type)
AddLinkType(types, link_type) == types \cup {link_type}

\* link_documents: the heap and the known link types that the call leaves,
\* and its outcome.
link_documents(source_id, target_id, link_type, weight, metadata) ==
    LET source == get_document(source_id)
        target == get_document(target_id)
    IN IF source = None \/ target = None
       THEN [heap |-> heap, link_types |-> link_types, answer |-> NotFound]
       ELSE LET made == add_link(heap, source[1], target[1], link_type,
                                 weight, metadata)
            IN [heap |-> made.heap,
                link_types |-> AddLinkType(link_types, link_type),
                answer |-> [op |-> "link_documents", args |-> <<>>,
                            value |-> made.link, raised |-> made.raised]]

\* A call of link_documents.
LinkDocuments(source_id, target_id, link_type, weight, metadata) ==
    LET after == link_documents(source_id, target_id, link_type, weight,
                                metadata)
    IN /\ heap' = after.heap
       /\ link_types' = after.link_types
       /\ answer' = after.answer
       /\ UNCHANGED <<nodes, tag_index, regVars, syncVars>>

\* A sorted() that returns the list as it is given.
SortedByWeight_Unsorted(related) == related

\* sorted(related, key=lambda x: x[1], reverse=True): a stable sort, each
\* pair placed after the pairs of no lower weight that precede it.
RECURSIVE SortedByWeight(_)
SortedByWeight(related) ==
    IF related = <<>> THEN <<>>
    ELSE LET n == Len(related)
             x == related[n]
             before == SortedByWeight(SubSeq(related, 1, n - 1))
             k == Cardinality({i \in 1..(n - 1) : before[i][2] >= x[2]})
         IN SubSeq(before, 1, k) \o <<x>> \o SubSeq(before, k + 1, n - 1)

find_related_documents(doc_id, link_type, min_weight) ==
    LET node == get_document(doc_id)
        matches(link) ==
            /\ link_type = None \/ link.link_type = link_type[1]
            /\ link.weight >= min_weight
        kept == SelectSeq(heap[node[1]].links, matches)
        related == [i \in 1..Len(kept) |-> <<kept[i].target, kept[i].weight>>]
    IN IF node = None THEN <<>> ELSE SortedByWeight(related)

\* A search that goes on whatever max_hops is.
HopsLeft_Always(max_hops) == TRUE

\* The test max_hops >= 0 of the while loop.
HopsLeft(max_hops) == max_hops >= 0

\* A search that does not extend the path by the node it goes to.
Extended_Not(path, node) == path

\* path + [node]
Extended(path, node) == Append(path, node)

\* The for loop of get_shortest_path over the links of the node popped.
RECURSIVE ScanLinks(_, _, _, _, _)
ScanLinks(links, target, path, visited, queue) ==
    IF links = <<>> THEN [found |-> None, visited |-> visited, queue |-> queue]
    ELSE LET link == Head(links)
         IN IF link.target \in visited
            THEN ScanLinks(Tail(links), target, path, visited, queue)
            ELSE IF link.target = target
            THEN [found |-> Some(Extended(path, target)),
                  visited |-> visited, queue |-> queue]
            ELSE ScanLinks(Tail(links), target, path,
                           visited \cup {link.target},
                           Append(queue, <<link.target, Extended(path, link.target)>>))

\* The while loop of get_shortest_path.
RECURSIVE Search(_, _, _, _)
Search(queue, visited, target, max_hops) ==
    IF queue = <<>> \/ ~HopsLeft(max_hops) THEN None
    ELSE LET current == Head(queue)[1]
             path == Head(queue)[2]
             scan == ScanLinks(heap[current].links, target, path, visited,
                               Tail(queue))
         IN IF scan.found # None THEN scan.found
            ELSE Search(scan.queue, scan.visited, target, max_hops - 1)

\* A get_shortest_path without the test source == target.
get_shortest_path_Searching(source_id, target_id, max_hops) ==
    LET source == get_document(source_id)
        target == get_document(target_id)
    IN IF source = None \/ target = None THEN None
       ELSE Search(<< <<source[1], <<source[1]>>>> >>, {source[1]}, target[1],
                   max_hops)

get_shortest_path(source_id, target_id, max_hops) ==
    LET source == get_document(source_id)
        target == get_document(target_id)
    IN IF source = None \/ target = None THEN None
       ELSE IF source = target THEN Some(<<source[1]>>)
       ELSE Search(<< <<source[1], <<source[1]>>>> >>, {source[1]}, target[1],
                   max_hops)

\* A call of find_related_documents.
FindRelated(doc_id, link_type, min_weight) ==
    /\ answer' = Returned("find_related_documents",
                          <<doc_id, link_type, min_weight>>,
                          find_related_documents(doc_id, link_type, min_weight))
    /\ UNCHANGED <<heap, nodes, link_types, tag_index, regVars, syncVars>>

\* A call of get_shortest_path.
ShortestPath(source_id, target_id, max_hops) ==
    /\ answer' = Returned("get_shortest_path",
                          <<source_id, target_id, max_hops>>,
                          get_shortest_path(source_id, target_id, max_hops))
    /\ UNCHANGED <<heap, nodes, link_types, tag_index, regVars, syncVars>>

BraidInit ==
    /\ BraidUnused
    /\ SyncUnused
    /\ records = <<>>
    /\ order = <<>>
    /\ next_execution_id = 1
    /\ storage_path = None
    /\ file = NoFile
    /\ clock = 1
    /\ called = FALSE
    /\ linked = {}
    /\ ops = 0
    /\ peer = NoPeer

\* A braid whose documents are linked.
BraidNext ==
    \/ /\ Cardinality(DOMAIN heap) < MaxObjects
       /\ \E d \in BraidDocs : add_document(d, "d.md", None)
    \/ /\ LinkCount(DOMAIN heap) < MaxLinks
       /\ \E s, t \in BraidDocs \cup {Unknown}, a \in LinkArgs :
             LinkDocuments(s, t, a[1], a[2], a[3])

BraidSpec == BraidInit /\ [][BraidNext]_vars

\* A braid in which the document A is linked and queried for the documents
\* related to it.
RelatedNext ==
    \/ /\ Cardinality(DOMAIN heap) < MaxObjects
       /\ \E d \in BraidDocs : add_document(d, "d.md", None)
    \/ /\ LinkCount(DOMAIN heap) < MaxQueriedLinks
       /\ \E t \in BraidDocs \cup {Unknown}, a \in LinkArgs :
             LinkDocuments("A", t, a[1], a[2], a[3])
    \/ \E a \in RelatedArgs : FindRelated(a[1], a[2], a[3])

RelatedSpec == BraidInit /\ [][RelatedNext]_vars

\* A braid with links of one kind that is searched for paths from A to D.
PathNext ==
    \/ /\ Cardinality(DOMAIN heap) < MaxPathObjects
       /\ \E d \in DocIds : add_document(d, "d.md", None)
    \/ /\ LinkCount(DOMAIN heap) < MaxQueriedLinks
       /\ \E s, t \in DocIds \cup {Unknown}, a \in PathLinkArgs :
             LinkDocuments(s, t, a[1], a[2], a[3])
    \/ \E a \in PathArgs : ShortestPath(a[1], a[2], a[3])

PathSpec == BraidInit /\ [][PathNext]_vars

\* A call of get_document.
GetDocument(doc_id) ==
    /\ answer' = Returned("get_document", <<doc_id>>, get_document(doc_id))
    /\ UNCHANGED <<heap, nodes, link_types, tag_index, regVars, syncVars>>

\* A braid to which documents are added with and without an id.
KeyNext ==
    \/ /\ Cardinality(DOMAIN heap) < MaxObjects
       /\ \E d \in KeyDocs, q \in KeyPaths : add_document(d, q, None)
    \/ \E d \in KeyQueries : GetDocument(d)

KeySpec == BraidInit /\ [][KeyNext]_vars

\* A braid whose documents are tagged and looked up by tag.
TagNext ==
    \/ /\ Cardinality(DOMAIN heap) < MaxObjects
       /\ \E d \in TagDocs, m \in MetadataArgs : add_document(d, "d.md", m)
    \/ \E n \in DOMAIN heap, t \in Tags : add_tag(n, t)
    \/ \E n \in DOMAIN heap, t \in Tags : HasTag(n, t)
    \/ \E t \in Tags : FindByTag(t)

TagSpec == BraidInit /\ [][TagNext]_vars

----------------------------------------------------------------------------
(* Properties of the execution ledger *)

Terminal == {COMPLETED, FAILED, CANCELLED}

IsStart == \E k \in Kernels, d \in DocPaths,
              p \in {None} \cup {Some(i) : i \in KnownToCaller} : start_execution(k, d, p)

Count(seq, x) == Cardinality({i \in 1..Len(seq) : seq[i] = x})

Elements(seq) == {seq[i] : i \in 1..Len(seq)}

\* C1: terminal statuses are absorbing: once a record is COMPLETED, FAILED or
\* CANCELLED, no step changes its status.
C1_TerminalAbsorbing ==
    [][\A i \in Ids \cap DOMAIN records' :
          records[i].status \in Terminal => records'[i].status = records[i].status]_regVars

\* C2: double completion is a no-op: complete_execution on a COMPLETED record
\* leaves its status, end time, output, metrics and seal as they were.
C2_DoubleCompleteNoOp ==
    [][\A i \in Ids, a \in CompleteArgs :
          (records[i].status = COMPLETED /\ complete_execution(i, a[1], a[2]))
              => /\ records'[i].status = records[i].status
                 /\ records'[i].end_time = records[i].end_time
                 /\ records'[i].output = records[i].output
                 /\ records'[i].metrics = records[i].metrics
                 /\ records'[i].quantum_seal = records[i].quantum_seal]_regVars

\* C3: for every id this registry returned from start_execution, whatever was
\* done to other ids, after complete_execution(id, output) the record has status
\* COMPLETED, a non-empty seal, an end time and the given output.
C3_CompleteSeals ==
    [][\A i \in Ids, a \in CompleteArgs :
          complete_execution(i, a[1], a[2])
              => /\ i \in DOMAIN records'
                 /\ records'[i].status = COMPLETED
                 /\ records'[i].quantum_seal # None
                 /\ records'[i].quantum_seal[1] # <<>>
                 /\ records'[i].end_time # None
                 /\ records'[i].output = Some(a[1])]_regVars

\* A record completed with a non-empty output and sealed, beside a record of
\* another id that has failed in the meantime.
C3_Witness ==
    \E i, j \in Ids :
        /\ i # j
        /\ records[j].status = FAILED
        /\ records[i].status = COMPLETED
        /\ records[i].output = Some({"x"})
        /\ records[i].quantum_seal # None
        /\ records[i].end_time # None

\* C4: a record carries a seal if and only if its status is COMPLETED.
C4_SealIffCompleted ==
    \A i \in Ids : (records[i].quantum_seal # None) <=> (records[i].status = COMPLETED)

\* C5: the id start_execution returns differs from every id of the registry and
\* from every id of the backing file the registry was constructed on.
C5_FreshId ==
    [][IsStart => _generate_execution_id \notin (Ids \cup FileIds)]_regVars

\* C6: a registry constructed on a saved file holds exactly the records of the
\* file, and its counter exceeds the counter part of every id of the file.
C6_RoundTrip ==
    (storage_path # None /\ file.exists /\ ~called)
        => /\ {to_dict(records[i]) : i \in Ids} = Elements(file.records)
           /\ \A i \in FileIds : next_execution_id > record_num(i)

\* C7: with a storage path, after every call has returned the records of the
\* backing file are the in-memory records with their current field values.
C7_WriteThrough ==
    (storage_path # None /\ called)
        => Elements(file.records) = {to_dict(records[i]) : i \in Ids}

\* The ancestors of a record along the parent links, the record included.
RECURSIVE Up(_, _)
Up(current, seen) ==
    LET p == records[current].parent_execution_id
    IN IF p # None /\ p[1] \in Ids /\ p[1] \notin seen
       THEN Up(p[1], seen \cup {p[1]})
       ELSE seen

\* The records of the execution tree that holds id: those that share an ancestor.
TreeOf(id) == {j \in Ids : Up(j, {j}) \cap Up(id, {id}) # {}}

Position(seq, x) == CHOOSE i \in 1..Len(seq) : seq[i] = x

\* C8: for a known id, get_trace returns every record of the tree of id once,
\* the root ancestor first, a parent before its children, siblings in creation
\* order, and the same for every id of the tree.
C8_TraceIsPreorder ==
    \A id \in Ids :
        LET got == get_execution_trace(id)
        IN /\ got # None
           /\ LET t == got[1]
              IN /\ Elements(t) = TreeOf(id)
                 /\ Len(t) = Cardinality(TreeOf(id))
                 /\ LET pr == records[t[1]].parent_execution_id
                    IN pr = None \/ pr[1] \notin Ids
                 /\ \A a, b \in 1..Len(t) :
                       records[t[b]].parent_execution_id = Some(t[a]) => a < b
                 /\ \A a, b \in 1..Len(t) :
                       (/\ a < b
                        /\ records[t[a]].parent_execution_id
                              = records[t[b]].parent_execution_id)
                           => Position(order, t[a]) < Position(order, t[b])
                 /\ \A j \in TreeOf(id) : get_execution_trace(j) = got

\* C9: a record started while its parent id was in the registry occurs exactly
\* once in that parent's child list; every id of a child list names a record
\* whose parent id is the owner of the list; a record started with a parent id
\* that was not in the registry keeps that parent id and is in no child list.
C9_ParentChildConsistent ==
    /\ \A c \in linked :
          /\ c \in Ids
          /\ records[c].parent_execution_id # None
          /\ records[c].parent_execution_id[1] \in Ids
          /\ Count(records[records[c].parent_execution_id[1]].child_executions, c) = 1
    /\ \A r \in Ids : \A c \in Elements(records[r].child_executions) :
          c \in Ids /\ records[c].parent_execution_id = Some(r)
    /\ \A c \in Ids \ linked : \A r \in Ids :
          Count(records[r].child_executions, c) = 0

\* A root with two children, and a record whose parent id was never in the
\* registry.
C9_Witness ==
    \E r \in Ids :
        /\ Len(records[r].child_executions) = 2
        /\ \E c \in Ids \ linked : records[c].parent_execution_id = Some(Ghost)

----------------------------------------------------------------------------
(* Properties of the chain sync *)

LogEntries == IF log.kind = "dict" THEN EntriesOf(log.doc) ELSE <<>>

\* C10: while no sync call was given force=true, no two entries of the log
\* carry the same registry hash, and a sync that finds the hash of the ledger
\* in the log leaves the log as it is.
C10_IdempotentSync ==
    /\ [](~forced =>
            \A i, j \in 1..Len(LogEntries) :
                LogEntries[i].registry_hash = LogEntries[j].registry_hash => i = j)
    /\ [][(sync_registry(FALSE) /\ HasHash(LogEntries, _compute_registry_hash))
             => log' = log]_vars

\* After syncs without force on a rewritten ledger: two entries in the log, the
\* hash of the current ledger among them, and the last sync appended nothing.
C10_Witness ==
    /\ ~forced
    /\ Len(LogEntries) = 2
    /\ result.op = "sync"
    /\ result.message = "already synchronized"
    /\ HasHash(LogEntries, _compute_registry_hash)

\* The ledger file can be opened and holds JSON.
Readable == ledger.kind \notin {"missing", "invalid"}

\* C11: a sync_registry call that can open the log and finds the hash of the
\* ledger not yet in it, or is given force=true, appends exactly one entry,
\* which carries the hash of the ledger, and returns success=true only if
\* the log then holds an entry with that hash.
C11_SyncAppendsOne ==
    [][\A force \in BOOLEAN :
         (/\ sync_registry(force)
          /\ Readable
          /\ log.kind # "unreadable"
          /\ force \/ ~HasHash(LogEntries, _compute_registry_hash))
         => /\ Len(LogEntries') = Len(LogEntries) + 1
            /\ SubSeq(LogEntries', 1, Len(LogEntries)) = LogEntries
            /\ LogEntries'[Len(LogEntries')].registry_hash = _compute_registry_hash
            /\ result'.success => HasHash(LogEntries', _compute_registry_hash)]_vars

\* A forced sync of a ledger whose hash the log already held: the log holds
\* two entries with the hash of the ledger, and the call returned success.
C11_Witness ==
    /\ forced
    /\ result = [op |-> "sync", success |-> TRUE, message |-> "synchronized"]
    /\ Len(LogEntries) = 2
    /\ \A i \in 1..2 : LogEntries[i].registry_hash = _compute_registry_hash

\* C12: whatever the log file held, the entries it held before a
\* sync_registry call are, unchanged and in the same order, a prefix of the
\* entries it holds after the call.
C12_AppendOnly ==
    [][\A force \in BOOLEAN :
         sync_registry(force)
         => /\ Len(LogEntries) <= Len(LogEntries')
            /\ SubSeq(LogEntries', 1, Len(LogEntries)) = LogEntries]_vars

\* A log that held one entry before the first call holds it still, ahead of
\* the two entries that two syncs appended.
C12_Witness ==
    /\ Len(LogEntries) = 3
    /\ LogEntries[1].timestamp = 0
    /\ LogEntries[2].registry_hash # LogEntries[3].registry_hash
    /\ result.op = "sync"

\* verify_sync answers whether the ledger is readable and some log entry
\* carries the hash of its content.
VerifyExact ==
    verify_sync <=>
        /\ Readable
        /\ \E i \in 1..Len(LogEntries) :
              LogEntries[i].registry_hash = sha3_256(SortedDump(ledger.doc))

\* verify_sync is true after a sync_registry call that returned success, and
\* stays true while the ledger file is not rewritten.
TrueAfterSync ==
    /\ (\E force \in BOOLEAN : sync_registry(force)) /\ result'.success
          => verify_sync'
    /\ verify_sync /\ ledger' = ledger => verify_sync'

\* C13 as stated: verify_sync is true exactly when the ledger is readable and
\* its hash is the hash of some log entry; it is true after every successful
\* sync until the ledger is rewritten; and it is false after every rewrite of
\* the ledger until sync_registry is called again.
C13_FalseAfterEveryRewrite ==
    /\ []VerifyExact
    /\ [][TrueAfterSync]_vars
    /\ [][/\ ledger' # ledger => ~verify_sync'
          /\ (~verify_sync /\ log' = log /\ ledger' = ledger) => ~verify_sync']_vars

\* C13, amended: verify_sync is true exactly when the ledger is readable and
\* its hash is the hash of some log entry; it is true after every successful
\* sync until the ledger is rewritten; and after a rewrite of the ledger it
\* is false until sync_registry is called again unless the log already holds
\* an entry with the hash of the new content.
C13_VerifyExact ==
    /\ []VerifyExact
    /\ [][TrueAfterSync]_vars
    /\ [][/\ (ledger' # ledger /\ ~HasHash(LogEntries, _compute_registry_hash'))
             => ~verify_sync'
          /\ (~verify_sync /\ log' = log /\ ledger' = ledger) => ~verify_sync']_vars

\* verify_sync has returned true on a log of two entries, of which the first
\* carries the hash of the ledger: the ledger was synced, rewritten and
\* synced, and rewritten back.
C13_Witness ==
    /\ result = [op |-> "verify", success |-> TRUE, message |-> ""]
    /\ Len(LogEntries) = 2
    /\ LogEntries[1].registry_hash = _compute_registry_hash
    /\ LogEntries[2].registry_hash # _compute_registry_hash
    /\ LogEntries[1].timestamp > 0

\* C14: no sync_registry call raises; a call made while the ledger is missing
\* or is not JSON, or while the log can be neither read nor written, returns
\* (false, message), and with such a ledger it leaves the log file as it is.
C14_SyncNeverRaises ==
    /\ [](result.op # "raised")
    /\ [][\A force \in BOOLEAN :
            (sync_registry(force) /\ (~Readable \/ log.kind = "unreadable"))
            => /\ result'.op = "sync"
               /\ result'.success = FALSE
               /\ result'.message # ""
               /\ ~Readable => log' = log]_vars

\* A sync of a readable ledger to a log that could not be opened has returned
\* the failure.
C14_Witness ==
    /\ Readable
    /\ log.kind = "unreadable"
    /\ result = CaughtFailure

----------------------------------------------------------------------------
(* Properties of the document graph *)

\* The node objects registered in the braid.
Registered == {nodes[d] : d \in DOMAIN nodes}

\* The links that the node object n has on the heap h and had not before.
AppendedTo(h, n) == SubSeq(h[n].links, Len(heap[n].links) + 1, Len(h[n].links))

\* On the heap h every node object has the links that it had before, in
\* their order, and no node object is new.
LinksKept(h) ==
    /\ DOMAIN h = DOMAIN heap
    /\ \A n \in DOMAIN heap :
          /\ Len(heap[n].links) <= Len(h[n].links)
          /\ SubSeq(h[n].links, 1, Len(heap[n].links)) = heap[n].links

\* max(0, min(1, w)) of a weight w in tenths.
Limited(w) == IF w < 0 THEN 0 ELSE IF w > 10 THEN 10 ELSE w

\* C15: the weight of every link of every node is in [0, 1], and every link
\* that a link_documents call given the weight w appends to a node, and the
\* link it returns, has the weight max(0, min(1, w)).
C15_WeightsClamped ==
    /\ \A n \in DOMAIN heap : \A i \in 1..Len(heap[n].links) :
          heap[n].links[i].weight \in 0..10
    /\ \A s, t \in DOMAIN nodes, a \in LinkArgs :
          LET after == link_documents(s, t, a[1], a[2], a[3])
          IN /\ \A n \in DOMAIN heap :
                   \A i \in 1..Len(AppendedTo(after.heap, n)) :
                       AppendedTo(after.heap, n)[i].weight = Limited(a[2])
             /\ after.answer.value # None
                   => after.answer.value[1].weight = Limited(a[2])

\* A node has a link that was given the weight -0.5 and stores 0, and the
\* last call returned a link that was given the weight 1.5 and stores 1.
C15_Witness ==
    /\ \E n \in DOMAIN heap : \E i \in 1..Len(heap[n].links) :
          /\ heap[n].links[i].link_type = "cites"
          /\ heap[n].links[i].weight = 0
    /\ answer.op = "link_documents"
    /\ answer.value # None
    /\ answer.value[1].metadata = {}
    /\ answer.value[1].link_type = "references"
    /\ answer.value[1].weight = 10

\* C16: a link_documents call with link type similar_to or related_to on two
\* registered documents A and B returns, appends exactly one link from A to
\* B to the links of A and exactly one link from B to A, of the same type,
\* weight and metadata, to the links of B, and appends no other link.
C16_SymmetricLinkBothWays ==
    \A s, t \in DOMAIN nodes, a \in LinkArgs :
        (a[1] \in SymmetricTypes /\ s # t)
        => LET after == link_documents(s, t, a[1], a[2], a[3])
               forward == [source |-> nodes[s], target |-> nodes[t],
                           link_type |-> a[1], weight |-> Limited(a[2]),
                           metadata |-> OrEmpty(a[3])]
               back == [forward EXCEPT !.source = nodes[t], !.target = nodes[s]]
           IN /\ ~after.answer.raised
              /\ LinksKept(after.heap)
              /\ AppendedTo(after.heap, nodes[s]) = <<forward>>
              /\ AppendedTo(after.heap, nodes[t]) = <<back>>
              /\ \A n \in DOMAIN heap \ {nodes[s], nodes[t]} :
                    AppendedTo(after.heap, n) = <<>>

\* C17: a link_documents call with a link type that is not symmetric on two
\* registered documents A and B appends exactly one link, from A to B, to
\* the links of A, and leaves the links of every other node, B among them,
\* as they are.
C17_DirectedLinkOneWay ==
    \A s, t \in DOMAIN nodes, a \in LinkArgs :
        a[1] \notin SymmetricTypes
        => LET after == link_documents(s, t, a[1], a[2], a[3])
               added == AppendedTo(after.heap, nodes[s])
           IN /\ ~after.answer.raised
              /\ LinksKept(after.heap)
              /\ Len(added) = 1
              /\ added[1].source = nodes[s]
              /\ added[1].target = nodes[t]
              /\ added[1].link_type = a[1]
              /\ after.answer.value = Some(added[1])
              /\ \A n \in DOMAIN heap \ {nodes[s]} : after.heap[n] = heap[n]

\* The last call returned a link from a node to another node that has a link
\* of its own; the source has that one link, the target still has its own.
C17_Witness ==
    /\ answer.op = "link_documents"
    /\ answer.value # None
    /\ LET link == answer.value[1]
       IN /\ link.source # link.target
          /\ heap[link.source].links = <<link>>
          /\ Len(heap[link.target].links) = 1
          /\ heap[link.target].links[1].source = link.target

\* C18: a link_documents call in which the source or the target id is not
\* registered returns None, raises nothing, and leaves the nodes, their
\* links and the set of known link types as they are.
C18_AbsentEndpoint ==
    \A s, t \in BraidDocs \cup {Unknown}, a \in LinkArgs :
        (s \notin DOMAIN nodes \/ t \notin DOMAIN nodes)
        => LET after == link_documents(s, t, a[1], a[2], a[3])
           IN /\ after.answer.value = None
              /\ after.answer.raised = FALSE
              /\ after.heap = heap
              /\ after.link_types = link_types

\* A link_documents call on a braid with a link of one type returned None,
\* and the types the call could have named are not all known.
C18_Witness ==
    /\ answer.op = "link_documents"
    /\ answer.value = None
    /\ ~answer.raised
    /\ Cardinality(link_types) = 1
    /\ LinkCount(DOMAIN heap) = 1

\* The positions of the links of the node registered under doc_id that
\* have the link type asked for, if one is asked for, and at least the
\* weight min_weight.
Matching(doc_id, link_type, min_weight) ==
    LET links == heap[nodes[doc_id]].links
    IN {i \in 1..Len(links) :
          /\ link_type # None => links[i].link_type = link_type[1]
          /\ links[i].weight >= min_weight}

\* C19: find_related_documents returns [] for an id that is not registered,
\* and otherwise one (target, weight) pair for each link of the node that
\* matches the filters and no other pair, a pair of higher weight before a
\* pair of lower weight, and pairs of the same weight in the order in which
\* their links were appended.
C19_RelatedSorted ==
    answer.op = "find_related_documents" =>
        LET doc_id == answer.args[1]
            value == answer.value
        IN IF doc_id \notin DOMAIN nodes THEN value = <<>>
           ELSE LET links == heap[nodes[doc_id]].links
                    matching == Matching(doc_id, answer.args[2], answer.args[3])
                IN /\ Len(value) = Cardinality(matching)
                   /\ \E p \in [1..Len(value) -> matching] :
                         /\ \A i \in 1..Len(value) :
                               value[i] = <<links[p[i]].target, links[p[i]].weight>>
                         /\ \A i, j \in 1..Len(value) :
                               i < j =>
                                 \/ links[p[i]].weight > links[p[j]].weight
                                 \/ /\ links[p[i]].weight = links[p[j]].weight
                                    /\ p[i] < p[j]

\* find_related_documents has returned three pairs for a node whose first
\* and last link have the same weight, lower than the weight of its second
\* link, and different targets: the second link's pair, then the first's,
\* then the third's.
C19_Witness ==
    /\ answer.op = "find_related_documents"
    /\ answer.args[1] \in DOMAIN nodes
    /\ LET links == heap[nodes[answer.args[1]]].links
       IN /\ Len(links) = 3
          /\ Len(answer.value) = 3
          /\ links[1].weight = links[3].weight
          /\ links[1].weight < links[2].weight
          /\ links[1].target # links[3].target
          /\ answer.value[2][1] = links[1].target
          /\ answer.value[3][1] = links[3].target

\* The node objects that a directed path of at most k links leads to from
\* the node object n.
RECURSIVE Within(_, _)
Within(n, k) ==
    IF k <= 0 THEN {n}
    ELSE LET near == Within(n, k - 1)
         IN near \cup UNION {{heap[m].links[i].target :
                                 i \in 1..Len(heap[m].links)} : m \in near}

\* The documents A, B, C, D are registered and their only links are one from
\* A to B, one from B to C and one from C to D.
Chain ==
    /\ DOMAIN nodes = DocIds
    /\ \A e \in {<<"A", "B">>, <<"B", "C">>, <<"C", "D">>} :
          /\ Len(heap[nodes[e[1]]].links) = 1
          /\ heap[nodes[e[1]]].links[1].target = nodes[e[2]]
    /\ heap[nodes["D"]].links = <<>>

\* C20: get_shortest_path(s, t, h) on two different registered documents
\* returns None when no directed path of at most h+1 links leads from s to
\* t; on the chain from A to D it returns [A, B, C, D] when h is 5.
C20_HopBudget ==
    answer.op = "get_shortest_path" =>
        LET s == answer.args[1]
            t == answer.args[2]
            h == answer.args[3]
        IN /\ (/\ s \in DOMAIN nodes /\ t \in DOMAIN nodes
               /\ nodes[s] # nodes[t]
               /\ nodes[t] \notin Within(nodes[s], h + 1))
              => answer.value = None
           /\ (Chain /\ s = "A" /\ t = "D" /\ h = 5)
              => answer.value =
                   Some(<<nodes["A"], nodes["B"], nodes["C"], nodes["D"]>>)

\* get_shortest_path from A to D with max_hops=1 has returned None on the
\* chain, where D is three links from A.
C20_Witness ==
    /\ Chain
    /\ answer = Returned("get_shortest_path", <<"A", "D", 1>>, None)

\* C21: get_shortest_path(s, t, h) on two different registered documents
\* returns a path whenever a directed path of at most h+1 links leads from s
\* to t, however many other nodes are as near to s or nearer.
C21_BudgetPerLevel ==
    answer.op = "get_shortest_path" =>
        LET s == answer.args[1]
            t == answer.args[2]
            h == answer.args[3]
        IN (/\ s \in DOMAIN nodes /\ t \in DOMAIN nodes
            /\ nodes[s] # nodes[t]
            /\ nodes[t] \in Within(nodes[s], h + 1))
           => answer.value # None

\* C22: get_shortest_path(A, A, h) returns [A] for every registered A and
\* every h, negative, zero or positive, and get_shortest_path returns None
\* when its source or its target is not registered.
C22_SelfPath ==
    /\ \A d, e \in DocIds \cup {Unknown}, h \in {-1, 0, 1, 5} :
          /\ (d = e /\ d \in DOMAIN nodes)
                => get_shortest_path(d, e, h) = Some(<<nodes[d]>>)
          /\ (d \notin DOMAIN nodes \/ e \notin DOMAIN nodes)
                => get_shortest_path(d, e, h) = None
    /\ (answer.op = "get_shortest_path" /\ answer.args[1] = answer.args[2])
          => answer.value = IF answer.args[1] \in DOMAIN nodes
                            THEN Some(<<nodes[answer.args[1]]>>)
                            ELSE None

\* get_shortest_path from A to A with max_hops=-1 has returned [A], on a
\* braid in which A has links.
C22_Witness ==
    /\ "A" \in DOMAIN nodes
    /\ heap[nodes["A"]].links # <<>>
    /\ answer = Returned("get_shortest_path", <<"A", "A", -1>>,
                         Some(<<nodes["A"]>>))

\* The tags that the metadata a node was constructed with carries.
TagsIn(metadata) ==
    UNION {{item[2][i] : i \in 1..Len(item[2])} :
             item \in {it \in metadata : it[1] = "tags"}}

\* The spellings of a tag in the letter cases in use.
Spellings(tag) == IF tag \in {"X", "x"} THEN {"X", "x"} ELSE {tag}

\* C23: after add_document(id, path, metadata), find_documents_by_tag(t)
\* returns the new node for every tag of the metadata, whatever the letter
\* case in which t spells it.
C23_TagsIndexed ==
    answer.op = "add_document" =>
        LET n == answer.value[1]
        IN \A u \in TagsIn(heap[n].metadata) : \A t \in Spellings(u) :
              n \in find_documents_by_tag(t)

\* C24: an add_tag call on a node leaves the tag index as it is, so that
\* find_documents_by_tag returns for every tag what it returned before the
\* call, and has_tag on the node is then true for the tag in any letter
\* case.
C24_AddTagNotIndexed ==
    [][\A n \in DOMAIN heap, t \in Tags :
         add_tag(n, t)
         => /\ tag_index' = tag_index
            /\ \A q \in Tags : find_documents_by_tag(q)' = find_documents_by_tag(q)
            /\ \A u \in Spellings(t) : has_tag(n, u)']_vars

\* has_tag("X") has returned true on a node that was given the tag "x" by
\* add_tag, and find_documents_by_tag finds no node for it.
C24_Witness ==
    /\ answer.op = "has_tag"
    /\ answer.args[2] = "X"
    /\ answer.value = Some(TRUE)
    /\ heap[answer.args[1]].tags = {"x"}
    /\ find_documents_by_tag("x") = {}

\* C25: an add_document call with an id that is registered registers a new
\* node under it, which has no links; the ids registered are the same as
\* before, every other id is registered to the node it was, and every node
\* constructed before, the replaced one among them, has the links it had.
C25_ReplaceNotMerge ==
    [][\A d \in BraidDocs :
         (add_document(d, "d.md", None) /\ d \in DOMAIN nodes)
         => /\ nodes'[d] # nodes[d]
            /\ heap'[nodes'[d]].links = <<>>
            /\ DOMAIN nodes' = DOMAIN nodes
            /\ \A e \in DOMAIN nodes \ {d} : nodes'[e] = nodes[e]
            /\ \A n \in DOMAIN heap : heap'[n] = heap[n]]_vars

\* A document that had a link to another document, which has a link of its
\* own, was added again: the node now registered has no links, the node it
\* replaced and the other document have theirs.
C25_Witness ==
    /\ answer.op = "add_document"
    /\ LET n == answer.value[1]
       IN /\ n[2] = 1
          /\ heap[n].links = <<>>
          /\ Len(heap[<<n[1], 0>>].links) = 1
          /\ \E e \in DOMAIN nodes \ {n[1]} : Len(heap[nodes[e]].links) = 1

\* C26: cancel_execution on a RUNNING or PENDING record makes it CANCELLED
\* and stamps its end time; on a COMPLETED, FAILED or CANCELLED record it
\* leaves every record and the backing file as they were.
C26_CancelOnlyOpen ==
    [][\A i \in Ids :
         cancel_execution(i)
         => IF records[i].status \in {PENDING, RUNNING}
            THEN /\ records'[i].status = CANCELLED
                 /\ records'[i].end_time = Some(clock)
                 /\ \A j \in Ids \ {i} : records'[j] = records[j]
            ELSE /\ records' = records
                 /\ file' = file]_regVars

\* A record was cancelled while it was running and carries the end time; the
\* cancelled record and a completed one are there for a cancel_execution call
\* at a later time, and the file is as the last change of a record wrote it.
C26_Witness ==
    /\ storage_path # None
    /\ \E i, j \in Ids :
          /\ records[i].status = CANCELLED
          /\ records[i].end_time = Some(1)
          /\ records[i].quantum_seal = None
          /\ records[j].status = COMPLETED
    /\ clock = 2
    /\ file.last_updated = 1

\* C27: complete_execution, fail_execution and cancel_execution with an id
\* the registry holds no record of return without creating a record and leave
\* the records, their order and the backing file as they were.
C27_UnknownIdNoOp ==
    [][\A i \in KnownToCaller \ Ids :
         (\/ \E a \in CompleteArgs : complete_execution(i, a[1], a[2])
          \/ \E a \in FailArgs : fail_execution(i, a[1], a[2])
          \/ cancel_execution(i))
         => /\ records' = records
            /\ order' = order
            /\ next_execution_id' = next_execution_id
            /\ file' = file]_regVars

\* A call with an unknown id has returned: the registry, constructed on a
\* file that holds a record of an earlier registry, holds no record, and the
\* file is as it was written before the call.
C27_Witness ==
    /\ called
    /\ Ids = {}
    /\ FileIds # {}
    /\ file.last_updated < clock

\* The sum of the values of a dict of numbers.
RECURSIVE SumOfValues(_, _)
SumOfValues(dict, keys) ==
    IF keys = {} THEN 0
    ELSE LET k == CHOOSE x \in keys : TRUE
         IN dict[k] + SumOfValues(dict, keys \ {k})

\* The keys under which a dict of statistics reports the number of records
\* of a status.
CountKeys == {"pending", "running", "completed", "failed", "cancelled"}

\* C28: in every state of a registry that holds records,
\* get_execution_stats counts every record under its status: the counts it
\* reports by status add up to the total it reports.
C28_StatsSumToTotal ==
    Ids # {} =>
        LET stats == get_execution_stats
        IN SumOfValues(stats, DOMAIN stats \cap CountKeys) = stats["total"]

\* C29: get_latest_sync returns None when the log is missing, is no sync
\* log (not JSON, or JSON that is no object) or has no entries; otherwise
\* it returns an entry of the log whose timestamp is at least that of every
\* entry, which is the entry appended last when the timestamps of the log
\* increase strictly.
C29_LatestSync ==
    LET got == get_latest_sync
        entries == IF log.kind = "dict" THEN EntriesOf(log.doc) ELSE <<>>
    IN /\ ~got.raised
       /\ (log.kind \in {"missing", "invalid", "nondict"} \/ entries = <<>>)
             => got.value = None
       /\ entries # <<>>
             => /\ got.value # None
                /\ \E i \in 1..Len(entries) : got.value[1] = entries[i]
                /\ \A i \in 1..Len(entries) :
                      entries[i].timestamp <= got.value[1].timestamp
                /\ (\A i \in 1..(Len(entries) - 1) :
                       entries[i].timestamp < entries[i + 1].timestamp)
                      => got.value[1] = entries[Len(entries)]

\* Whether the string a is less than the string b, compared character by
\* character as strings are.
LexLess(a, b) ==
    \E k \in 1..Len(b) :
        /\ k <= Len(a) + 1
        /\ \A j \in 1..(k - 1) : a[j] = b[j]
        /\ (k = Len(a) + 1 \/ a[k] < b[k])

\* C30: of two ids the registry generated within the same millisecond, the
\* string of the one generated earlier is less than the string of the one
\* generated later.
C30_IdsSortByCreation ==
    \A a, b \in 1..Len(order) :
        (a < b /\ order[a][1] = order[b][1])
            => LexLess(Rendered(order[a]), Rendered(order[b]))

\* The entries that ExecutionRecord.from_dict accepts: every key is a field
\* of the dataclass, the four fields without default are there, and the
\* status, when given, names a member of ExecutionStatus.
Accepted(entry) ==
    /\ "duration" \notin DOMAIN entry
    /\ {"execution_id", "kernel_name", "doc_path", "start_time"} \subseteq DOMAIN entry
    /\ ("status" \in DOMAIN entry
          => entry["status"][1] \in {"PENDING", "RUNNING", "COMPLETED", "FAILED", "CANCELLED"})

\* C31: _load_records raises nothing; on a file that is unreadable or is not
\* a JSON object it leaves the registry empty, and on a file of record
\* entries it loads the record of every entry that can be parsed, and of no
\* other.  A registry on which no call was made since its construction holds
\* what _load_records loaded.
C31_LoadNeverRaises ==
    LET loaded == _load_records(file)
    IN /\ ~loaded.raised
       /\ file.kind # "dict" => loaded.records = <<>>
       /\ file.kind = "dict" =>
             /\ DOMAIN loaded.records =
                   {file.records[i]["execution_id"][1] :
                       i \in {j \in 1..Len(file.records) : Accepted(file.records[j])}}
             /\ \A id \in DOMAIN loaded.records :
                   /\ loaded.records[id].execution_id = id
                   /\ \E i \in 1..Len(file.records) :
                         /\ Accepted(file.records[i])
                         /\ file.records[i]["kernel_name"] = Some(loaded.records[id].kernel_name)
                         /\ file.records[i]["execution_id"] = Some(id)
       /\ (file.exists /\ ~called) => records = loaded.records

\* A registry was constructed on a file of three entries of which the
\* second cannot be parsed: it holds the records of the first and the third.
C31_Witness ==
    /\ ~called
    /\ Len(file.records) = 3
    /\ ~Accepted(file.records[2])
    /\ Ids = {<<1, 1>>, <<1, 2>>}
    /\ records[<<1, 2>>].status = PENDING
    /\ records[<<1, 1>>].status = FAILED
    /\ next_execution_id = 3

\* C32: the type of every link of every node, registered or replaced, is in
\* link_types, and no step takes a type out of link_types.
C32_LinkTypesKnown ==
    /\ [](\A n \in DOMAIN heap : \A i \in 1..Len(heap[n].links) :
            heap[n].links[i].link_type \in link_types)
    /\ [][link_types \subseteq link_types']_vars

\* Links of two types were made, one of them from a node that was replaced
\* afterwards, and both types are known.
C32_Witness ==
    /\ {"references", "cites"} \subseteq link_types
    /\ \E n, m \in DOMAIN heap :
          /\ n # m
          /\ n \notin {nodes[d] : d \in DOMAIN nodes}
          /\ Len(heap[n].links) = 1
          /\ Len(heap[m].links) = 1
          /\ heap[n].links[1].link_type # heap[m].links[1].link_type

\* C33: start_execution adds one record, under an id the registry did not
\* hold, which is RUNNING and has no end time, output, error or seal and no
\* children; the record of the parent it names has the new id appended to
\* its child list and is otherwise as it was, and every other record is as
\* it was.
C33_StartAddsOne ==
    [][\A k \in Kernels, d \in DocPaths,
         p \in {None} \cup {Some(i) : i \in KnownToCaller} :
         start_execution(k, d, p)
         => LET id == _generate_execution_id
            IN /\ id \notin Ids
               /\ DOMAIN records' = Ids \cup {id}
               /\ records'[id].status = RUNNING
               /\ records'[id].end_time = None
               /\ records'[id].output = None
               /\ records'[id].error = None
               /\ records'[id].quantum_seal = None
               /\ records'[id].child_executions = <<>>
               /\ records'[id].parent_execution_id = p
               /\ \A j \in Ids :
                     records'[j] = IF p = Some(j)
                                   THEN [records[j] EXCEPT
                                            !.child_executions = Append(@, id)]
                                   ELSE records[j]]_regVars

\* An execution was started as the child of a running one, beside a
\* completed execution that has no children.
C33_Witness ==
    \E i, j, k \in Ids :
        /\ records[j].status = RUNNING
        /\ records[j].parent_execution_id = Some(i)
        /\ records[j].child_executions = <<>>
        /\ records[i].child_executions = <<j>>
        /\ records[i].status = RUNNING
        /\ records[k].status = COMPLETED
        /\ records[k].child_executions = <<>>
        /\ order[Len(order)] = j

\* C34: a record has an end time if and only if it is COMPLETED, FAILED or
\* CANCELLED, and the end time is not before the start time; a FAILED record
\* has an error string and a RUNNING record has none.
C34_EndTimeIffTerminal ==
    \A i \in Ids :
        /\ (records[i].end_time # None)
              <=> (records[i].status \in {COMPLETED, FAILED, CANCELLED})
        /\ records[i].end_time # None => records[i].end_time[1] >= records[i].start_time
        /\ records[i].status = FAILED => records[i].error # None
        /\ records[i].status = RUNNING => records[i].error = None

\* A record that failed, with its error string and end time, beside a
\* record that was cancelled after the clock had advanced.
C34_Witness ==
    \E j, k \in Ids :
        /\ records[j].status = FAILED
        /\ records[j].error = Some("boom")
        /\ records[j].end_time # None
        /\ records[k].status = CANCELLED
        /\ records[k].error = None
        /\ records[k].end_time # None
        /\ records[k].end_time[1] > records[k].start_time

\* C35: every key of the node map is the id of the node it is mapped to,
\* and get_document on the id of the node that add_document returned gives
\* that node.
C35_KeyedByOwnId ==
    /\ \A k \in DOMAIN nodes : heap[nodes[k]].id = k
    /\ answer.op = "add_document"
          => get_document(heap[answer.value[1]].id) = answer.value

\* The targets of the links of the node object n.
Targets(n) == {heap[n].links[i].target : i \in 1..Len(heap[n].links)}

\* C36: a path that get_shortest_path(s, t, h) returns starts at the node of
\* s and ends at the node of t, holds no node twice, goes from each node to
\* the next along a link of the former, and no directed path of fewer links
\* leads from s to t; the search returns on every graph, those with cycles
\* included.
C36_PathIsShortest ==
    \A s, t \in DocIds, h \in {0, 1, 2, 5} :
        LET got == get_shortest_path(s, t, h)
        IN got # None =>
             LET path == got[1]
             IN /\ path[1] = nodes[s]
                /\ path[Len(path)] = nodes[t]
                /\ \A i, j \in 1..Len(path) : i # j => path[i] # path[j]
                /\ \A i \in 1..(Len(path) - 1) : path[i + 1] \in Targets(path[i])
                /\ Len(path) > 1 => nodes[t] \notin Within(nodes[s], Len(path) - 2)

\* get_shortest_path has returned the path from A over B to D on a graph in
\* which A and B link to each other.
C36_Witness ==
    /\ {"A", "B", "D"} \subseteq DOMAIN nodes
    /\ nodes["A"] \in Targets(nodes["B"])
    /\ answer.op = "get_shortest_path"
    /\ answer.value = Some(<<nodes["A"], nodes["B"], nodes["D"]>>)

\* C37: every node that find_related_documents returns, and every node of a
\* path that get_shortest_path returns, is the node registered under its id
\* at the time of the call.
C37_OnlyRegisteredNodes ==
    /\ \A d \in DocIds :
          LET related == find_related_documents(d, None, 0)
          IN \A i \in 1..Len(related) : related[i][1] \in Registered
    /\ \A s, t \in DocIds, h \in {0, 1, 2, 5} :
          LET got == get_shortest_path(s, t, h)
          IN got # None => \A i \in 1..Len(got[1]) : got[1][i] \in Registered

\* C38: a record that the backing file holds is in the backing file after
\* every later construction of a registry on the file and every later call.
C38_RecordsDurable ==
    [][FileIds \subseteq FileIds']_regVars

\* C39: when two registries are open on the same backing file, the file
\* holds, after every call, the record of every execution that either of
\* them started.
C39_NoLostUpdate ==
    (peer.name # "none" /\ file.exists) =>
        /\ \A i \in Ids : to_dict(records[i]) \in Elements(file.records)
        /\ \A i \in DOMAIN peer.records :
              to_dict(peer.records[i]) \in Elements(file.records)

\* The index of the last entry of the chain for the document, 0 if none.
LastEntryFor(document_path) ==
    LET found == {i \in 1..Len(chain.entries) :
                     chain.entries[i].document = document_path}
    IN IF found = {} THEN 0 ELSE CHOOSE i \in found : \A j \in found : i >= j

\* C40: verify_scroll_link on a document is true when the document is as
\* it was at the last link_to_scroll call on it (the last entry of the
\* chain for it carries the digest of what the document holds now),
\* whatever entries precede that one; it is false, and raises nothing, when
\* the chain file is missing, is not JSON, is not a JSON object of entries,
\* or holds no entry for the document.
C40_LinkThenVerify ==
    \A d \in ScrollDocs :
        LET got == verify_scroll_link(d)
            last == LastEntryFor(d)
        IN /\ chain.kind # "unreadable" => ~got.raised
           /\ (chain.kind = "dict" /\ last # 0
                 /\ chain.entries[last].quantum_anchor.doc_hash
                       = generate_quantum_anchor(d, clock).doc_hash)
                => got.value
           /\ (chain.kind \in {"missing", "invalid", "nondict", "noentries"}
                 \/ last = 0)
                => ~got.value

====
